---- MODULE Spec2Model ----
(***************************************************************************)
(* Model of src/sxarconvertor/zip_to_sxar.py: the SXARWriter class         *)
(* (add_file, write) and convert_zip_to_sxar.                              *)
(*                                                                         *)
(* A name is a sequence of Unicode code points (a Python str), data and    *)
(* the output file are sequences of bytes (0..255).  The writer is driven  *)
(* either directly (mode "api": any sequence of add_file calls, then       *)
(* write) or by convert_zip_to_sxar (mode "convert").                      *)
(***************************************************************************)
EXTENDS Integers, Sequences, FiniteSets, TLC

VARIABLES mode, pc, src, idx, added, files, created, out, data_start, k,
          current_data_offset, err, result

vars == <<mode, pc, src, idx, added, files, created, out, data_start, k,
          current_data_offset, err, result>>

(***************************************************************************)
(* Bounds of the model.                                                    *)
(***************************************************************************)
MaxFiles == 2
MaxEntries == 2

(***************************************************************************)
(* Characters and integer limits used by the code.                         *)
(***************************************************************************)
Backslash == 92
Slash == 47
UByteMax == 255
MAGIC == 1380014163

Rep(c, n) == [i \in 1..n |-> c]

RECURSIVE FlattenRange(_, _, _)
FlattenRange(ss, lo, hi) ==
    IF lo > hi THEN <<>>
    ELSE IF lo = hi THEN ss[lo]
    ELSE LET mid == (lo + hi) \div 2
         IN  FlattenRange(ss, lo, mid) \o FlattenRange(ss, mid + 1, hi)

Flatten(ss) == FlattenRange(ss, 1, Len(ss))

(***************************************************************************)
(* str.encode('utf-8') of one code point and of a whole string.            *)
(***************************************************************************)
Utf8Char(cp) ==
    IF cp < 128 THEN <<cp>>
    ELSE IF cp < 2048 THEN <<192 + (cp \div 64), 128 + (cp % 64)>>
    ELSE IF cp < 65536
         THEN <<224 + (cp \div 4096), 128 + ((cp \div 64) % 64), 128 + (cp % 64)>>
         ELSE <<240 + (cp \div 262144), 128 + ((cp \div 4096) % 64),
                128 + ((cp \div 64) % 64), 128 + (cp % 64)>>

encode(name) == Flatten([i \in 1..Len(name) |-> Utf8Char(name[i])])

(***************************************************************************)
(* struct.pack('<I', v) and struct.pack('B', v); both raise struct.error   *)
(* when v is out of range, which the callers below test with the Fits      *)
(* predicates before using the packed bytes.  The '<I' range 0..2^32-1 is  *)
(* written as v \div 2^16 < 2^16.                                          *)
(***************************************************************************)
FitsI(v) == v >= 0 /\ (v \div 65536) < 65536
FitsB_exclusive(v) == v >= 0 /\ v < UByteMax

FitsB(v) == v >= 0 /\ v <= UByteMax
PackI_big_endian(v) == <<(v \div 16777216) % 256, (v \div 65536) % 256,
                         (v \div 256) % 256, v % 256>>

PackI(v) == <<v % 256, (v \div 256) % 256, (v \div 65536) % 256,
              (v \div 16777216) % 256>>
PackB(v) == <<v>>

(***************************************************************************)
(* SXARWriter.add_file                                                     *)
(***************************************************************************)
replace_nothing(name) == name

replace(name) == [i \in 1..Len(name) |-> IF name[i] = Backslash THEN Slash ELSE name[i]]

startswith_slash(name) == Len(name) > 0 /\ name[1] = Slash

stored_name(name) ==
    LET n == replace(name)
    IN  IF startswith_slash(n) THEN n ELSE <<Slash>> \o n

add_file_by_name(fs, name, data) ==
    IF \E i \in 1..Len(fs) : fs[i][1] = stored_name(name)
    THEN [i \in 1..Len(fs) |->
             IF fs[i][1] = stored_name(name) THEN <<fs[i][1], data>> ELSE fs[i]]
    ELSE Append(fs, <<stored_name(name), data>>)

add_file(fs, name, data) == Append(fs, <<stored_name(name), data>>)

(***************************************************************************)
(* SXARWriter.write: size computation, header, records, data.              *)
(***************************************************************************)
RECURSIVE file_info_size(_)
file_info_size(fs) ==
    IF fs = <<>> THEN 0
    ELSE 1 + Len(Head(fs)[1]) + 4 + 4 + file_info_size(Tail(fs))

header_start == 16

file_data_info(fs) == [i \in 1..Len(fs) |-> fs[i][2]]

header(fs, ds) == PackI(MAGIC) \o PackI(Len(fs)) \o PackI(header_start) \o PackI(ds)

record(name_bytes, offset, size) ==
    PackB(Len(name_bytes)) \o name_bytes \o PackI(offset) \o PackI(size)

(***************************************************************************)
(* Inputs.  Code points: 97 'a', 98 'b', 100 'd', 233 e-acute (2 bytes in  *)
(* UTF-8), 8364 euro sign (3 bytes).                                       *)
(***************************************************************************)
ApiNames ==
    { <<97>>, <<47, 97>>, <<97, 92, 98>>, <<47, 233>>, <<8364>>,
      Rep(97, 255),
      <<47>> \o Rep(97, 254),
      <<47>> \o Rep(97, 255),
      <<47>> \o Rep(233, 127),
      <<47, 97>> \o Rep(233, 127) }

Datas == { <<>>, <<120>>, <<1, 2>> }

ZipNames == { <<97>>, <<100, 47>>, <<47, 233>>, Rep(97, 255) }

ZipDatas == { <<120>>, <<1, 2>> }

ZipEntry == [name : ZipNames, data : ZipDatas, readable : BOOLEAN]

SeqsUpTo(S, n) == UNION { [1..m -> S] : m \in 0..n }

Sources ==
    { [kind |-> kd, entries |-> <<>>] : kd \in {"missing", "notzip", "corrupt"} }
    \cup { [kind |-> "ok", entries |-> es] : es \in SeqsUpTo(ZipEntry, MaxEntries) }

NoSource == [kind |-> "none", entries |-> <<>>]

endswith_slash(name) == Len(name) > 0 /\ name[Len(name)] = Slash

Init ==
    /\ mode \in {"api", "convert"}
    /\ IF mode = "api"
       THEN src = NoSource /\ pc = "api"
       ELSE src \in Sources /\ pc = "exists"
    /\ idx = 0
    /\ added = <<>>
    /\ files = <<>>
    /\ created = FALSE
    /\ out = <<>>
    /\ data_start = 0
    /\ k = 0
    /\ current_data_offset = 0
    /\ err = "none"
    /\ result = "none"

(***************************************************************************)
(* Direct use of the writer: writer.add_file(name, data) any number of     *)
(* times, then writer.write(path).                                         *)
(***************************************************************************)
ApiAddFile ==
    /\ pc = "api"
    /\ Len(files) < MaxFiles
    /\ \E name \in ApiNames, data \in Datas :
          /\ files' = add_file(files, name, data)
          /\ added' = Append(added, <<name, data>>)
    /\ UNCHANGED <<mode, pc, src, idx, created, out, data_start, k,
                   current_data_offset, err, result>>

ApiWrite ==
    /\ pc = "api"
    /\ pc' = "write"
    /\ UNCHANGED <<mode, src, idx, added, files, created, out, data_start, k,
                   current_data_offset, err, result>>

(***************************************************************************)
(* SXARWriter.write, in four steps: open + size computation, header,       *)
(* one metadata record, data block.  An exception closes the file (the     *)
(* with block), which keeps the bytes written so far.                      *)
(***************************************************************************)
WriteOpen ==
    /\ pc = "write"
    /\ created' = TRUE
    /\ out' = <<>>
    /\ data_start' = header_start + file_info_size(files)
    /\ pc' = "header"
    /\ UNCHANGED <<mode, src, idx, added, files, k, current_data_offset, err, result>>

WriteHeader ==
    /\ pc = "header"
    /\ IF ~FitsI(Len(files))
       THEN /\ out' = out \o PackI(MAGIC)
            /\ err' = "struct.error" /\ pc' = "raised"
            /\ UNCHANGED <<k, current_data_offset>>
       ELSE IF ~FitsI(data_start)
       THEN /\ out' = out \o PackI(MAGIC) \o PackI(Len(files)) \o PackI(header_start)
            /\ err' = "struct.error" /\ pc' = "raised"
            /\ UNCHANGED <<k, current_data_offset>>
       ELSE /\ out' = out \o header(files, data_start)
            /\ current_data_offset' = 0
            /\ k' = 1
            /\ pc' = "records"
            /\ UNCHANGED err
    /\ UNCHANGED <<mode, src, idx, added, files, created, data_start, result>>

WriteRecord_name_first ==
    /\ pc = "records"
    /\ k <= Len(files)
    /\ LET name == files[k][1]
           data == files[k][2]
           name_bytes == encode(name)
       IN  IF ~FitsB(Len(name_bytes))
           THEN /\ out' = out \o name_bytes
                /\ err' = "struct.error: ubyte" /\ pc' = "raised"
                /\ UNCHANGED <<k, current_data_offset>>
           ELSE /\ out' = out \o record(name_bytes, current_data_offset, Len(data))
                /\ current_data_offset' = current_data_offset + Len(data)
                /\ k' = k + 1
                /\ UNCHANGED <<pc, err>>
    /\ UNCHANGED <<mode, src, idx, added, files, created, data_start, result>>

WriteRecord ==
    /\ pc = "records"
    /\ k <= Len(files)
    /\ LET name == files[k][1]
           data == files[k][2]
           name_bytes == encode(name)
       IN  IF ~FitsB(Len(name_bytes))
           THEN /\ err' = "struct.error: ubyte" /\ pc' = "raised"
                /\ UNCHANGED <<out, k, current_data_offset>>
           ELSE IF ~FitsI(current_data_offset)
           THEN /\ out' = out \o PackB(Len(name_bytes)) \o name_bytes
                /\ err' = "struct.error" /\ pc' = "raised"
                /\ UNCHANGED <<k, current_data_offset>>
           ELSE IF ~FitsI(Len(data))
           THEN /\ out' = out \o PackB(Len(name_bytes)) \o name_bytes
                             \o PackI(current_data_offset)
                /\ err' = "struct.error" /\ pc' = "raised"
                /\ UNCHANGED <<k, current_data_offset>>
           ELSE /\ out' = out \o record(name_bytes, current_data_offset, Len(data))
                /\ current_data_offset' = current_data_offset + Len(data)
                /\ k' = k + 1
                /\ UNCHANGED <<pc, err>>
    /\ UNCHANGED <<mode, src, idx, added, files, created, data_start, result>>

WriteData ==
    /\ pc = "records"
    /\ k > Len(files)
    /\ out' = out \o Flatten(file_data_info(files))
    /\ pc' = "written"
    /\ UNCHANGED <<mode, src, idx, added, files, created, data_start, k,
                   current_data_offset, err, result>>

(***************************************************************************)
(* convert_zip_to_sxar                                                     *)
(***************************************************************************)
CheckExists ==
    /\ pc = "exists"
    /\ IF src.kind = "missing"
       THEN result' = FALSE /\ pc' = "done"
       ELSE pc' = "is_zipfile" /\ UNCHANGED result
    /\ UNCHANGED <<mode, src, idx, added, files, created, out, data_start, k,
                   current_data_offset, err>>

CheckIsZipfile_unchecked ==
    /\ pc = "is_zipfile"
    /\ pc' = "open_zip"
    /\ UNCHANGED <<mode, src, idx, added, files, created, out, data_start, k,
                   current_data_offset, err, result>>

CheckIsZipfile ==
    /\ pc = "is_zipfile"
    /\ IF src.kind = "notzip"
       THEN result' = FALSE /\ pc' = "done"
       ELSE pc' = "open_zip" /\ UNCHANGED result
    /\ UNCHANGED <<mode, src, idx, added, files, created, out, data_start, k,
                   current_data_offset, err>>

OpenZip ==
    /\ pc = "open_zip"
    /\ files' = <<>>
    /\ IF src.kind = "corrupt"
       THEN err' = "BadZipFile" /\ pc' = "raised" /\ UNCHANGED idx
       ELSE idx' = 1 /\ pc' = "loop" /\ UNCHANGED err
    /\ UNCHANGED <<mode, src, added, created, out, data_start, k,
                   current_data_offset, result>>

LoopEntry_abort_on_unreadable ==
    /\ pc = "loop"
    /\ idx <= Len(src.entries)
    /\ LET e == src.entries[idx]
       IN  IF endswith_slash(e.name)
           THEN UNCHANGED <<files, added, pc, err>>
           ELSE IF ~e.readable
           THEN pc' = "raised" /\ err' = "read error" /\ UNCHANGED <<files, added>>
           ELSE /\ files' = add_file(files, e.name, e.data)
                /\ added' = Append(added, <<e.name, e.data>>)
                /\ UNCHANGED <<pc, err>>
    /\ idx' = idx + 1
    /\ UNCHANGED <<mode, src, created, out, data_start, k,
                   current_data_offset, result>>

LoopEntry ==
    /\ pc = "loop"
    /\ idx <= Len(src.entries)
    /\ LET e == src.entries[idx]
       IN  IF endswith_slash(e.name) \/ ~e.readable
           THEN UNCHANGED <<files, added>>
           ELSE /\ files' = add_file(files, e.name, e.data)
                /\ added' = Append(added, <<e.name, e.data>>)
    /\ idx' = idx + 1
    /\ UNCHANGED <<mode, pc, src, created, out, data_start, k,
                   current_data_offset, err, result>>

LoopEnd ==
    /\ pc = "loop"
    /\ idx > Len(src.entries)
    /\ pc' = "write"
    /\ UNCHANGED <<mode, src, idx, added, files, created, out, data_start, k,
                   current_data_offset, err, result>>

ReturnTrue ==
    /\ mode = "convert"
    /\ pc = "written"
    /\ result' = TRUE
    /\ pc' = "done"
    /\ UNCHANGED <<mode, src, idx, added, files, created, out, data_start, k,
                   current_data_offset, err>>

ReturnExcept ==
    /\ mode = "convert"
    /\ pc = "raised"
    /\ result' = FALSE
    /\ pc' = "done"
    /\ UNCHANGED <<mode, src, idx, added, files, created, out, data_start, k,
                   current_data_offset, err>>

Next ==
    \/ ApiAddFile
    \/ ApiWrite
    \/ WriteOpen
    \/ WriteHeader
    \/ WriteRecord
    \/ WriteData
    \/ CheckExists
    \/ CheckIsZipfile
    \/ OpenZip
    \/ LoopEntry
    \/ LoopEnd
    \/ ReturnTrue
    \/ ReturnExcept

Spec == Init /\ [][Next]_vars

(***************************************************************************)
(* A reader of the SXAR layout: 16-byte header, totalFiles metadata        *)
(* records from headerStart on, data block at dataStart.  Positions are    *)
(* 0-based byte offsets.                                                   *)
(***************************************************************************)
U32(b, pos) == b[pos + 1] + 256 * b[pos + 2] + 65536 * b[pos + 3] + 16777216 * b[pos + 4]

Slice(b, from, n) ==
    LET last == IF from + n < Len(b) THEN from + n ELSE Len(b)
    IN  SubSeq(b, from + 1, last)

Utf8DecodeAt(b, i) ==
    IF b[i] < 128 THEN b[i]
    ELSE IF b[i] < 224 THEN (b[i] - 192) * 64 + (b[i + 1] - 128)
    ELSE IF b[i] < 240
         THEN (b[i] - 224) * 4096 + (b[i + 1] - 128) * 64 + (b[i + 2] - 128)
         ELSE (b[i] - 240) * 262144 + (b[i + 1] - 128) * 4096
              + (b[i + 2] - 128) * 64 + (b[i + 3] - 128)

Utf8Decode(b) ==
    LET IsLead(i) == b[i] < 128 \/ b[i] >= 192
        leads == SelectSeq([i \in 1..Len(b) |-> i], IsLead)
    IN  [j \in 1..Len(leads) |-> Utf8DecodeAt(b, leads[j])]

RECURSIVE ReadRecords(_, _, _)
ReadRecords(b, pos, n) ==
    IF n = 0 \/ pos + 1 > Len(b) THEN <<>>
    ELSE LET nameLength == b[pos + 1]
             rec == [name   |-> Slice(b, pos + 1, nameLength),
                     offset |-> U32(b, pos + 1 + nameLength),
                     size   |-> U32(b, pos + 1 + nameLength + 4),
                     next   |-> pos + 1 + nameLength + 8]
         IN  <<rec>> \o ReadRecords(b, rec.next, n - 1)

Records(b) == ReadRecords(b, U32(b, 8), U32(b, 4))

RecordsEnd(b) ==
    LET recs == Records(b)
    IN  IF recs = <<>> THEN U32(b, 8) ELSE recs[Len(recs)].next

ParseArchive(b) ==
    LET recs == Records(b)
    IN  [i \in 1..Len(recs) |->
            <<Utf8Decode(recs[i].name), Slice(b, U32(b, 12) + recs[i].offset, recs[i].size)>>]

(***************************************************************************)
(* The same table read with the data block taken where it physically is:   *)
(* right behind the last metadata record.                                  *)
(***************************************************************************)
PhysicalEntries(b) ==
    LET recs == Records(b)
    IN  [i \in 1..Len(recs) |->
            <<Utf8Decode(recs[i].name), Slice(b, RecordsEnd(b) + recs[i].offset, recs[i].size)>>]

Written == pc = "written" \/ (pc = "done" /\ result = TRUE)

NameBytes(name) == Len(encode(name))

Datas_of(es) == [i \in 1..Len(es) |-> es[i][2]]

RECURSIVE SumSizes(_, _)
SumSizes(es, n) == IF n = 0 THEN 0 ELSE Len(es[n][2]) + SumSizes(es, n - 1)

(***************************************************************************)
(* C1: round-trip law.  For every sequence of add_file(name, data) calls   *)
(* whose names are at most 255 UTF-8 bytes, followed by write, parsing the *)
(* written bytes with a reader of the SXAR layout yields the same ordered  *)
(* sequence of (name, data) pairs that was passed in.  The law is stated   *)
(* for the names that add_file stores as they are passed (C5 is about the  *)
(* names it changes), so that what is read back depends on write alone.    *)
(***************************************************************************)
C1_RoundTrip ==
    (pc = "written" /\ mode = "api"
       /\ \A i \in 1..Len(added) :
             NameBytes(added[i][1]) <= UByteMax /\ files[i][1] = added[i][1])
    => ParseArchive(out) = added

(***************************************************************************)
(* C2: in every written archive the header's dataStart equals              *)
(* 16 + sum(1 + UTF-8 byte length of the stored name + 8), which is the    *)
(* absolute offset at which the first data byte is written, for ASCII and  *)
(* for multi-byte names.                                                   *)
(***************************************************************************)
RECURSIVE MetadataBytes(_)
MetadataBytes(fs) ==
    IF fs = <<>> THEN 0 ELSE 1 + NameBytes(Head(fs)[1]) + 8 + MetadataBytes(Tail(fs))

C2_DataStart ==
    Written =>
        /\ U32(out, 12) = 16 + MetadataBytes(files)
        /\ U32(out, 12) = Len(out) - Len(Flatten(file_data_info(files)))

(***************************************************************************)
(* C3: in every written archive, dataOffset of record i is the sum of the  *)
(* data sizes of the entries before it, dataSize of record i is the length *)
(* of entry i's data, and the sum of all sizes equals the length of the    *)
(* data block, which equals the file size minus the header's dataStart.    *)
(***************************************************************************)
C3_OffsetsAndSizes ==
    Written =>
        LET recs == Records(out)
        IN  /\ Len(recs) = Len(added)
            /\ \A i \in 1..Len(recs) :
                  /\ recs[i].offset = SumSizes(added, i - 1)
                  /\ recs[i].size = Len(added[i][2])
            /\ SumSizes(added, Len(added)) = Len(out) - RecordsEnd(out)
            /\ SumSizes(added, Len(added)) = Len(out) - U32(out, 12)

(***************************************************************************)
(* The name add_file is expected to store for a caller's name, written     *)
(* out independently of add_file: backslashes become slashes and a slash   *)
(* is put in front unless one is there already.                            *)
(***************************************************************************)
SlashForm(name) == [i \in 1..Len(name) |-> IF name[i] = 92 THEN 47 ELSE name[i]]

ExpectedName(name) ==
    LET r == SlashForm(name)
    IN  IF Len(r) > 0 /\ r[1] = 47 THEN r ELSE <<47>> \o r

WriteEnded == created /\ pc \in {"written", "raised", "done"}

(***************************************************************************)
(* C4 (as stated): an entry whose caller-supplied name is exactly 255      *)
(* UTF-8 bytes is written successfully; one whose name is 256 bytes fails  *)
(* with the name-length overflow and the conversion reports failure.       *)
(***************************************************************************)
C4_SuppliedNameBoundary ==
    /\ (WriteEnded /\ \A i \in 1..Len(added) : NameBytes(added[i][1]) <= 255)
          => Written
    /\ (WriteEnded /\ \E i \in 1..Len(added) : NameBytes(added[i][1]) >= 256)
          => (err = "struct.error: ubyte" /\ (pc = "done" => result = FALSE))

(***************************************************************************)
(* C4 (amended): the 255-byte limit applies to the stored name.  When      *)
(* every stored name is at most 255 UTF-8 bytes write succeeds; when some  *)
(* stored name is 256 bytes or more write fails with the name-length       *)
(* overflow at the first such entry, whose record is not written (no       *)
(* truncated name), and the conversion reports failure.                    *)
(***************************************************************************)
C4_StoredNameBoundary ==
    /\ (WriteEnded /\ \A i \in 1..Len(files) : NameBytes(files[i][1]) <= 255)
          => Written
    /\ (WriteEnded /\ \E i \in 1..Len(files) : NameBytes(files[i][1]) >= 256)
          => /\ err = "struct.error: ubyte"
             /\ ~Written
             /\ pc = "done" => result = FALSE
             /\ NameBytes(files[k][1]) >= 256
             /\ \A j \in 1..(k - 1) : NameBytes(files[j][1]) <= 255
             /\ Len(out) = 16 + MetadataBytes(SubSeq(files, 1, k - 1))

C4_Witness ==
    /\ pc = "written"
    /\ \E i \in 1..Len(files) :
          NameBytes(files[i][1]) = 255 /\ NameBytes(added[i][1]) = 255

(***************************************************************************)
(* C5 (as stated): the name bytes of every metadata record are the UTF-8   *)
(* encoding of the caller's name with each backslash replaced by a slash,  *)
(* nothing added or removed.                                               *)
(***************************************************************************)
C5_OnlyBackslashReplaced ==
    Written =>
        /\ Len(Records(out)) = Len(added)
        /\ \A i \in 1..Len(added) :
              Records(out)[i].name = encode(SlashForm(added[i][1]))

(***************************************************************************)
(* C5 (amended): the name bytes of every metadata record are the UTF-8     *)
(* encoding of the caller's name with each backslash replaced by a slash   *)
(* and with one slash put in front when the replaced name does not start   *)
(* with a slash; nothing else is added or removed.                         *)
(***************************************************************************)
C5_SlashedAndRooted ==
    Written =>
        /\ Len(Records(out)) = Len(added)
        /\ \A i \in 1..Len(added) :
              LET e == encode(SlashForm(added[i][1]))
              IN  Records(out)[i].name =
                     IF Len(e) > 0 /\ e[1] = 47 THEN e ELSE <<47>> \o e

C5_Witness ==
    /\ pc = "written"
    /\ \E i \in 1..Len(added) : added[i][1] = <<97, 92, 98>>

(***************************************************************************)
(* C6: in every written archive totalFiles equals the number of add_file   *)
(* calls and the number of metadata records emitted; records and data      *)
(* segments are in the order of the calls; entries with the same name are  *)
(* stored as separate records with their own data.                         *)
(***************************************************************************)
C6_CountOrderDuplicates ==
    Written =>
        /\ U32(out, 4) = Len(added)
        /\ k - 1 = Len(added)
        /\ Len(Records(out)) = Len(added)
        /\ RecordsEnd(out) + SumSizes(added, Len(added)) = Len(out)
        /\ Slice(out, RecordsEnd(out), Len(out)) = Flatten(Datas_of(added))
        /\ PhysicalEntries(out) =
              [i \in 1..Len(added) |-> <<ExpectedName(added[i][1]), added[i][2]>>]

C6_Witness ==
    /\ pc = "written"
    /\ Len(added) = 2
    /\ ExpectedName(added[1][1]) = ExpectedName(added[2][1])
    /\ added[1][2] # added[2][2]

(***************************************************************************)
(* C7: writing a writer with zero entries produces exactly 16 bytes:       *)
(* magic 'SXAR', totalFiles 0, headerStart 16, dataStart 16, and nothing   *)
(* after the header.                                                       *)
(***************************************************************************)
C7_EmptyArchive ==
    (Written /\ Len(added) = 0)
    => out = <<83, 88, 65, 82, 0, 0, 0, 0, 16, 0, 0, 0, 16, 0, 0, 0>>

C7_Witness == pc = "written" /\ mode = "api" /\ Len(added) = 0 /\ Len(out) = 16

(***************************************************************************)
(* C8: when the input path does not exist or is not a well-formed ZIP      *)
(* container, the conversion returns False and the output file is never    *)
(* created or opened at any step.                                          *)
(***************************************************************************)
C8_InvalidSourceNoOutput ==
    (mode = "convert" /\ src.kind \in {"missing", "notzip", "corrupt"})
    => /\ ~created
       /\ out = <<>>
       /\ pc \notin {"write", "header", "records", "written"}
       /\ pc = "done" => result = FALSE

C8_Witness ==
    pc = "done" /\ src.kind = "corrupt" /\ result = FALSE /\ err = "BadZipFile"

(***************************************************************************)
(* The entries of the source that are files and can be read, in source     *)
(* order.                                                                  *)
(***************************************************************************)
IsReadableFile(e) == e.readable /\ ~(Len(e.name) > 0 /\ e.name[Len(e.name)] = 47)

ReadableFiles(es) == SelectSeq(es, IsReadableFile)

ConvertEnded == mode = "convert" /\ pc = "done" /\ src.kind = "ok"

C10_LateNameCheck ==
    /\ Len(files) = Len(added)
    /\ pc \in {"api", "loop", "write"} => (err = "none" /\ ~created)
    /\ err = "struct.error: ubyte" =>
          LET recs == ReadRecords(out, 16, k - 1)
          IN  /\ created
              /\ pc \in {"raised", "done"}
              /\ pc = "done" => result = FALSE
              /\ NameBytes(files[k][1]) > 255
              /\ Slice(out, 0, 4) = <<83, 88, 65, 82>>
              /\ U32(out, 4) = Len(added)
              /\ U32(out, 8) = 16
              /\ Len(recs) = k - 1
              /\ \A j \in 1..(k - 1) :
                    /\ recs[j].name = encode(files[j][1])
                    /\ recs[j].size = Len(files[j][2])
              /\ Len(out) = IF k = 1 THEN 16 ELSE recs[k - 1].next

C10_Witness ==
    /\ mode = "convert"
    /\ pc = "done"
    /\ result = FALSE
    /\ err = "struct.error: ubyte"
    /\ k = 2
    /\ Len(out) > 16

====
